---- MODULE Spec2Model ----
(***************************************************************************)
(* A model of the wstp link wrapper (src/src/lib.rs): the expression codec *)
(* (Link::put_expr, get_expr), the Link lifecycle (constructors, close,    *)
(* Drop) and the address fallback (for_each_addr).                         *)
(*                                                                         *)
(* The native WSTP library is modelled as a token queue per link plus the  *)
(* link's error code.  The typed put_* / get_* primitives of put.rs and    *)
(* get.rs are modelled from the specification's TokenStream section.       *)
(*                                                                         *)
(* Spec      a loopback link written with put_expr and read with get_expr  *)
(* SpecWire  get_expr on a link whose peer wrote any token stream          *)
(* SpecLink  a Link from constructor to drop, written primitive by         *)
(*           primitive                                                     *)
(* SpecAddr  for_each_addr, one loop turn at a time                        *)
(***************************************************************************)
EXTENDS Integers, Sequences, FiniteSets, TLC

\* ------------------------------------------------------------------ bounds
\* Longest argument list of a Normal expression given to put_expr.
MaxArgs == 2
\* Number of put_expr calls in one run of the loopback specification.
MaxPuts == 2
\* Longest token stream a peer has written in the wire specification.
MaxWire == 4
\* Number of tokens pending on a link written one primitive at a time.
MaxPending == 2
\* Number of distinct non-OK native error codes.
MaxErrCode == 1
\* Number of native link handles a run opens.
MaxLinks == 2
\* Longest candidate address list given to for_each_addr.
MaxAddrs == 3
\* Longest option list given to connect_with_options.
MaxOpts == 2

\* ------------------------------------------------------- native constants
\* Token type tags of wstp_sys (the characters '+', '*', '"', '#', 'F').
WSTKERR == 0
WSTKINT == 43
WSTKREAL == 42
WSTKSTR == 34
WSTKSYM == 35
WSTKFUNC == 70
\* The "no error" code of the native layer.
MLEOK == 0
\* `type_ as u8` keeps the low 8 bits of the i32 tag.
U8 == 256
\* The exponent field of an IEEE-754 binary64 with all bits set.
F64ExpAllOnes == 2047
\* The context separator of a symbol name, the character '`'.
Backtick == 96

ErrCodes == 1..MaxErrCode

\* ---------------------------------------------------------------- values
\* An f64 is <<sign, exponent field, mantissa>>.
F64Finite == <<0, 1023, 1>>
F64Inf == <<0, F64ExpAllOnes, 0>>
F64NegInf == <<1, F64ExpAllOnes, 0>>
F64NaN == <<0, F64ExpAllOnes, 1>>

is_nan(r) == r[2] = F64ExpAllOnes /\ r[3] # 0

\* Text is a sequence of character codes.
QualName == <<Backtick + 1, Backtick, Backtick + 2>>
BareName == <<Backtick + 1>>
Text == <<Backtick + 3>>

\* Error { code: Option<i32>, message: String }; detail is the text that
\* format! interpolates into the message.
Error_custom(msg, detail) == [code |-> <<>>, message |-> msg, detail |-> detail]

Error_from_code(c) == [code |-> <<c>>, message |-> "WSTP error code", detail |-> <<>>]

NoError == [code |-> <<>>, message |-> "", detail |-> <<>>]

\* wl_expr::Expr: every node has the same fields, so that any two compare.
IntegerE(n) == [kind |-> "Integer", val |-> <<n>>, head |-> <<>>, contents |-> <<>>]

RealE(r) == [kind |-> "Real", val |-> r, head |-> <<>>, contents |-> <<>>]

StringE(s) == [kind |-> "String", val |-> s, head |-> <<>>, contents |-> <<>>]

SymbolE(name) == [kind |-> "Symbol", val |-> name, head |-> <<>>, contents |-> <<>>]

NormalE(h, args) == [kind |-> "Normal", val |-> <<>>, head |-> <<h>>, contents |-> args]

\* wl_expr::F64::new: a NotNan<f64>; only NaN is refused.
F64_new(r) == ~is_nan(r)

\* wl_expr::Symbol::new: the name must have a context before a separator and
\* a symbol name after it.
Symbol_new(name) == \E i \in 2..(Len(name) - 1) : name[i] = Backtick

\* ------------------------------------------------- Link::error and friends
\* What WSErrorMessage() returns: a null pointer, a buffer of valid UTF-8
\* text, or a buffer of bytes that are not UTF-8.
MsgNull == "null"

MsgText == "text"

MsgBytes == "bytes"

Messages == {MsgNull, MsgText, MsgBytes}

\* The messages on which `to_str().unwrap()` does not panic.
TextMessages == {MsgNull, MsgText}

\* The outcome of Link::error(): the Option<Error> it returns (or its
\* panic), the message buffers it obtained from and released to the native
\* layer, and the error code it leaves on the link.
Outcome(opt, panic, message, released, code) ==
    [opt |-> opt, panic |-> panic,
     obtained |-> IF message = MsgNull THEN 0 ELSE 1, released |-> released,
     code |-> code]

\* Link::error(): None when WSError() is MLEOK or the message is null;
\* `cstr.to_str().unwrap()` panics on bytes that are not UTF-8, before
\* WSReleaseErrorMessage.
error(code, message) ==
    IF code = MLEOK \/ message = MsgNull
    THEN Outcome(<<>>, FALSE, message, 0, code)
    ELSE IF message = MsgBytes
         THEN Outcome(<<>>, TRUE, message, 0, code)
         ELSE Outcome(<<[code |-> <<code>>, message |-> "WSErrorMessage", detail |-> <<>>]>>,
                      FALSE, message, 1, code)

error_or_unknown(code, message) ==
    LET r == error(code, message) IN
    IF r.panic \/ r.opt # <<>>
    THEN r
    ELSE [r EXCEPT !.opt = <<Error_custom("unknown error occurred on WSLINK", <<>>)>>]

\* ------------------------------------------------------- write primitives
\* A token is a type tag and a payload; WSPutNext starts a token whose
\* payload (the argument count) WSPutArgCount then supplies.
Token(t, v) == [tag |-> t, val |-> v]

put_raw_type(q, t) == Append(q, Token(t, <<>>))

put_arg_count(q, n) ==
    IF q # <<>> /\ q[Len(q)].tag = WSTKFUNC /\ q[Len(q)].val = <<>>
    THEN [q EXCEPT ![Len(q)] = Token(WSTKFUNC, <<n>>)]
    ELSE q

put_symbol(q, s) == Append(q, Token(WSTKSYM, s))

put_str(q, s) == Append(q, Token(WSTKSTR, s))

put_i64(q, n) == Append(q, Token(WSTKINT, <<n>>))

put_f64(q, r) == Append(q, Token(WSTKREAL, r))

RECURSIVE put_expr(_, _)
RECURSIVE put_contents(_, _)

\* `for elem in contents { self.put_expr(elem)?; }`
put_contents(q, es) ==
    IF es = <<>> THEN q ELSE put_contents(put_expr(q, Head(es)), Tail(es))

\* Mutant of put_normal: the head is written behind the arguments.
put_normal_head_last(q, e) ==
    put_expr(
        put_contents(put_arg_count(put_raw_type(q, WSTKFUNC), Len(e.contents)), e.contents),
        e.head[1])

\* Mutant of put_normal: the head is counted as an argument.
put_normal_count_head(q, e) ==
    put_contents(
        put_expr(put_arg_count(put_raw_type(q, WSTKFUNC), Len(e.contents) + 1), e.head[1]),
        e.contents)


put_normal(q, e) ==
    put_contents(
        put_expr(put_arg_count(put_raw_type(q, WSTKFUNC), Len(e.contents)), e.head[1]),
        e.contents)

put_expr(q, e) ==
    CASE e.kind = "Normal" -> put_normal(q, e)
      [] e.kind = "Symbol" -> put_symbol(q, e.val)
      [] e.kind = "String" -> put_str(q, e.val)
      [] e.kind = "Integer" -> put_i64(q, e.val[1])
      [] e.kind = "Real" -> put_f64(q, e.val)

\* ---------------------------------------------------------- token trees
\* The number of tokens of the subtree that starts at p[i], told from the
\* transmitted argument counts alone (a count that runs past the end of p
\* yields a length past the end of p).
RECURSIVE SubtreeLen(_, _)
RECURSIVE SubtreesLen(_, _, _)

SubtreesLen(p, i, n) ==
    IF n = 0 THEN 0
    ELSE LET k == SubtreeLen(p, i) IN k + SubtreesLen(p, i + k, n - 1)

SubtreeLen(p, i) ==
    IF i > Len(p) THEN 1
    ELSE IF p[i].tag = WSTKFUNC /\ Len(p[i].val) = 1
         THEN 1 + SubtreesLen(p, i + 1, 1 + p[i].val[1])
         ELSE 1

\* -------------------------------------------------------- read primitives
\* The result of a read: Ok(expr) or Err(err), the tokens left on the link,
\* and whether the native layer reported the failure (and so recorded its
\* error code on the link).
Ok(e, rest) == [ok |-> TRUE, expr |-> <<e>>, err |-> NoError, rest |-> rest, native |-> FALSE]

Err(err, rest) == [ok |-> FALSE, expr |-> <<>>, err |-> err, rest |-> rest, native |-> FALSE]

NativeErr(c, rest) ==
    [ok |-> FALSE, expr |-> <<>>, err |-> error_or_unknown(c, MsgText).opt[1], rest |-> rest,
     native |-> TRUE]

\* WSGetType: the tag of the token at the read cursor, WSTKERR when
\* nothing can be read.
get_raw_type(q) == IF q = <<>> THEN WSTKERR ELSE Head(q).tag

RECURSIVE get_expr(_, _)
RECURSIVE get_contents(_, _, _, _)

\* Mutant of get_int_arm: the integer is read and the read cursor stays.
get_int_arm_peek(q, c) ==
    IF Len(Head(q).val) = 1
    THEN Ok(IntegerE(Head(q).val[1]), q)
    ELSE NativeErr(c, q)


get_int_arm(q, c) ==
    IF Len(Head(q).val) = 1
    THEN Ok(IntegerE(Head(q).val[1]), Tail(q))
    ELSE NativeErr(c, q)

\* Mutant of get_real_arm: every value that is not finite is refused.
get_real_arm_finite(q, c) ==
    IF Len(Head(q).val) # 3
    THEN NativeErr(c, q)
    ELSE IF Head(q).val[2] # F64ExpAllOnes
         THEN Ok(RealE(Head(q).val), Tail(q))
         ELSE Err(Error_custom("NaN value passed on WSLINK cannot be used to construct an Expr",
                               <<>>),
                  Tail(q))

\* Mutant of get_real_arm: a NaN becomes the default value 0.0.
get_real_arm_default(q, c) ==
    IF Len(Head(q).val) # 3
    THEN NativeErr(c, q)
    ELSE IF F64_new(Head(q).val)
         THEN Ok(RealE(Head(q).val), Tail(q))
         ELSE Ok(RealE(<<0, 0, 0>>), Tail(q))


get_real_arm(q, c) ==
    IF Len(Head(q).val) # 3
    THEN NativeErr(c, q)
    ELSE IF F64_new(Head(q).val)
         THEN Ok(RealE(Head(q).val), Tail(q))
         ELSE Err(Error_custom("NaN value passed on WSLINK cannot be used to construct an Expr",
                               <<>>),
                  Tail(q))

get_str_arm(q, c) == Ok(StringE(Head(q).val), Tail(q))

\* Mutant of get_sym_arm: a name without a context is put in a context.
get_sym_arm_qualify(q, c) ==
    IF Symbol_new(Head(q).val)
    THEN Ok(SymbolE(Head(q).val), Tail(q))
    ELSE Ok(SymbolE(<<Backtick + 1, Backtick>> \o Head(q).val), Tail(q))


get_sym_arm(q, c) ==
    IF Symbol_new(Head(q).val)
    THEN Ok(SymbolE(Head(q).val), Tail(q))
    ELSE Err(Error_custom("Symbol name has no context", Head(q).val), Tail(q))

\* Mutant of get_contents: an argument that fails to decode is left out and
\* the loop goes on; the error is returned when the loop is over.
get_contents_recover(q, n, acc, c) ==
    IF n = 0
    THEN [ok |-> TRUE, exprs |-> acc, err |-> NoError, rest |-> q, native |-> FALSE]
    ELSE LET r == get_expr(q, c) IN
         IF r.ok
         THEN get_contents(r.rest, n - 1, Append(acc, r.expr[1]), c)
         ELSE LET more == get_contents(IF r.rest = <<>> THEN <<>> ELSE Tail(r.rest),
                                       n - 1, acc, c)
              IN  [ok |-> FALSE, exprs |-> <<>>, err |-> r.err, rest |-> more.rest,
                   native |-> r.native]

\* `for _ in 0..arg_count { contents.push(link.get_expr()?); }`
get_contents(q, n, acc, c) ==
    IF n = 0
    THEN [ok |-> TRUE, exprs |-> acc, err |-> NoError, rest |-> q, native |-> FALSE]
    ELSE LET r == get_expr(q, c) IN
         IF r.ok
         THEN get_contents(r.rest, n - 1, Append(acc, r.expr[1]), c)
         ELSE [ok |-> FALSE, exprs |-> <<>>, err |-> r.err, rest |-> r.rest,
               native |-> r.native]

\* Mutant of get_func_arm: the loop runs `0..=arg_count`, one turn too many.
get_func_arm_inclusive(q, c) ==
    IF Len(Head(q).val) # 1
    THEN NativeErr(c, q)
    ELSE LET arg_count == Head(q).val[1]
             head == get_expr(Tail(q), c)
         IN  IF ~head.ok
             THEN head
             ELSE LET args == get_contents(head.rest, arg_count + 1, <<>>, c) IN
                  IF ~args.ok
                  THEN [ok |-> FALSE, expr |-> <<>>, err |-> args.err, rest |-> args.rest,
                        native |-> args.native]
                  ELSE Ok(NormalE(head.expr[1], args.exprs), args.rest)

\* Mutant of get_func_arm: when the head or an argument fails to decode,
\* the rest of the Function expression is skipped.
get_func_arm_skip(q, c) ==
    IF Len(Head(q).val) # 1
    THEN NativeErr(c, q)
    ELSE LET arg_count == Head(q).val[1]
             head == get_expr(Tail(q), c)
             k == IF SubtreeLen(q, 1) > Len(q) THEN Len(q) ELSE SubtreeLen(q, 1)
             after == SubSeq(q, k + 1, Len(q))
         IN  IF ~head.ok
             THEN [head EXCEPT !.rest = after]
             ELSE LET args == get_contents(head.rest, arg_count, <<>>, c) IN
                  IF ~args.ok
                  THEN [ok |-> FALSE, expr |-> <<>>, err |-> args.err, rest |-> after,
                        native |-> args.native]
                  ELSE Ok(NormalE(head.expr[1], args.exprs), args.rest)

get_func_arm(q, c) ==
    IF Len(Head(q).val) # 1
    THEN NativeErr(c, q)
    ELSE LET arg_count == Head(q).val[1]
             head == get_expr(Tail(q), c)
         IN  IF ~head.ok
             THEN head
             ELSE LET args == get_contents(head.rest, arg_count, <<>>, c) IN
                  IF ~args.ok
                  THEN [ok |-> FALSE, expr |-> <<>>, err |-> args.err, rest |-> args.rest,
                        native |-> args.native]
                  ELSE Ok(NormalE(head.expr[1], args.exprs), args.rest)

\* get_expr(link); c is the error code the native layer records on the link
\* if one of its reads fails.
get_expr(q, c) ==
    LET type_ == get_raw_type(q) IN
    IF type_ = WSTKERR
    THEN NativeErr(c, q)
    ELSE CASE (type_ % U8) = WSTKINT -> get_int_arm(q, c)
           [] (type_ % U8) = WSTKREAL -> get_real_arm(q, c)
           [] (type_ % U8) = WSTKSTR -> get_str_arm(q, c)
           [] (type_ % U8) = WSTKSYM -> get_sym_arm(q, c)
           [] (type_ % U8) = WSTKFUNC -> get_func_arm(q, c)
           [] OTHER -> Err(Error_custom("unknown WSLINK type: ", <<type_>>), q)

\* ------------------------------------------------------ expression inputs
Leaves == {IntegerE(2), RealE(F64Finite), StringE(Text), SymbolE(QualName)}

SeqsUpTo(S, n) == UNION {[1..k -> S] : k \in 0..n}

\* The Normal expressions written have a Normal expression as head and, as
\* arguments, leaves and Normal expressions.
HeadSet == {NormalE(SymbolE(QualName), <<IntegerE(2)>>)}

ArgSet == {IntegerE(3), NormalE(StringE(Text), <<RealE(F64Finite)>>)}

Exprs == Leaves \cup {NormalE(h, args) : h \in HeadSet, args \in SeqsUpTo(ArgSet, MaxArgs)}

\* ------------------------------------------------- open argument lists
\* A &str: its text, and whether it holds a NUL byte.
Str(t) == [text |-> t, nul |-> FALSE]

NulStr(t) == [text |-> t, nul |-> TRUE]

Protocols == {"Protocol::IntraProcess", "Protocol::SharedMemory", "Protocol::TCPIP"}

\* impl Display for Protocol
to_string(protocol) ==
    CASE protocol = "Protocol::IntraProcess" -> Str("IntraProcess")
      [] protocol = "Protocol::SharedMemory" -> Str("SharedMemory")
      [] protocol = "Protocol::TCPIP" -> Str("TCPIP")

\* Mutant of listen: "-linkoptions" and "MLDontInteract" are left out.
listen_no_options(protocol, name) ==
    <<Str("-wstp"), Str("-linkmode"), Str("listen"), Str("-linkprotocol"),
      to_string(protocol), Str("-linkname"), name>>

\* The `strings` that Link::listen hands to open_with_args.
listen(protocol, name) ==
    <<Str("-wstp"), Str("-linkmode"), Str("listen"), Str("-linkprotocol"),
      to_string(protocol), Str("-linkname"), name,
      Str("-linkoptions"), Str("MLDontInteract")>>

\* The `strings` that Link::connect_with_options hands to open_with_args.
connect_with_options(protocol, name, options) ==
    <<Str("-wstp"), Str("-linkmode"), Str("connect"), Str("-linkprotocol"),
      to_string(protocol), Str("-linkname"), name>>
        \o (IF options # <<>> THEN <<Str("-linkoptions")>> \o options ELSE <<>>)

\* Link::connect
connect(protocol, name) == connect_with_options(protocol, name, <<>>)

\* ------------------------------------------------------------------ state
VARIABLES
    link,       \* the handle the Link value in scope owns; 0 when there is none
    opened,     \* number of native link handles opened so far
    made,       \* the handles a Link value was constructed on
    closes,     \* closes[h]: number of WSClose calls on handle h
    late,       \* late[h]: a native call was made on h after WSClose
    queue,      \* tokens pending on the link
    werr,       \* WSError() of the link
    written,    \* expressions put_expr has written, in order
    readLog,    \* expressions get_expr has returned, in order
    last,       \* the last operation: its name, the queue before it, its result
    pc,         \* for_each_addr: "idle", "loop" (in the for loop) or "done"
    candidates, \* for_each_addr: the addrs it was given
    func,       \* for_each_addr: func[k] is what the k-th call of func returns
    idx,        \* for_each_addr: position of the for loop in addrs
    last_error, \* for_each_addr: its local last_error, an Option<Error>
    attempts,   \* the addresses func has been called on, in call order
    ret,        \* what for_each_addr returned
    env_ok,     \* whether stdenv() yields the environment handle
    opencall,   \* the last constructor call: its name and its arguments
    argv,       \* the arguments the last call handed to the native open
    native_opens, \* native open calls made by the last constructor call
    c_strings,  \* C strings the last open_with_args allocated and freed
    panicked,   \* an operation panicked
    wmsg,       \* what WSErrorMessage() of the link returns
    calls,      \* calls of the native primitive made by the last operation
    buf,        \* message buffers the last operation obtained and released
    dest_queue, \* tokens pending on the second link
    dest_werr   \* WSError() of the second link

linkVars == <<link, opened, made, closes, late, queue, werr, written, readLog, last>>

addrVars == <<pc, candidates, func, idx, last_error, attempts, ret>>

openVars == <<opencall, argv, native_opens, c_strings>>

errVars == <<wmsg, calls, buf>>

destVars == <<dest_queue, dest_werr>>

\* What the codec and the address fallback leave alone.
restVars == <<env_ok, opencall, argv, native_opens, c_strings, panicked, wmsg, calls, buf,
              dest_queue, dest_werr>>

vars == <<link, opened, made, closes, late, queue, werr, written, readLog, last,
          pc, candidates, func, idx, last_error, attempts, ret,
          env_ok, opencall, argv, native_opens, c_strings, panicked, wmsg, calls, buf,
          dest_queue, dest_werr>>

NoLink == 0

NoOp == [op |-> "none", before |-> <<>>, arg |-> <<>>, res |-> Ok(IntegerE(0), <<>>)]

\* Result<T, Error> of for_each_addr and of func: T is the link opened for
\* an address.
NoRet == [ok |-> FALSE, val |-> <<>>, err |-> NoError]

\* for_each_addr has not been called.
AddrIdle ==
    /\ pc = "idle"
    /\ candidates = <<>>
    /\ func = <<>>
    /\ idx = 1
    /\ last_error = <<>>
    /\ attempts = <<>>
    /\ ret = NoRet

NoCall == [fn |-> "none", protocol |-> "", name |-> Str(""), options |-> <<>>]

NoStrings == [allocated |-> 0, freed |-> 0]

NoBuf == [obtained |-> 0, released |-> 0]

\* No constructor has been called, nothing has panicked, and WSErrorMessage
\* has a text for the link; there is no second link.
RestIdle ==
    /\ opencall = NoCall
    /\ argv = <<>>
    /\ native_opens = 0
    /\ c_strings = NoStrings
    /\ panicked = FALSE
    /\ wmsg = MsgText
    /\ calls = 0
    /\ buf = NoBuf
    /\ dest_queue = <<>>
    /\ dest_werr = MLEOK

\* The error of stdenv() when the environment cannot be initialized.
stdenv_error == Error_custom("failed to initialize the WSTP environment", <<>>)

\* ------------------------------------------------------ loopback codec
\* After `Link::new_loopback().unwrap()`.
Init ==
    /\ AddrIdle
    /\ RestIdle
    /\ env_ok = TRUE
    /\ link = 1
    /\ opened = 1
    /\ made = {1}
    /\ closes = [h \in 1..MaxLinks |-> 0]
    /\ late = [h \in 1..MaxLinks |-> FALSE]
    /\ queue = <<>>
    /\ werr = MLEOK
    /\ written = <<>>
    /\ readLog = <<>>
    /\ last = NoOp

\* link.put_expr(&e)
PutExpr(e) ==
    /\ link # NoLink
    /\ Len(written) < MaxPuts
    /\ queue' = put_expr(queue, e)
    /\ written' = Append(written, e)
    /\ last' = [op |-> "put_expr", before |-> queue, arg |-> <<e>>,
                res |-> Ok(e, put_expr(queue, e))]
    /\ late' = [late EXCEPT ![link] = late[link] \/ closes[link] > 0]
    /\ UNCHANGED <<link, opened, made, closes, werr, readLog>>
    /\ UNCHANGED restVars

\* link.get_expr(); `observe` says whether the run keeps the log of the
\* expressions returned.
DoGetExpr(c, observe) ==
    /\ link # NoLink
    /\ LET r == get_expr(queue, c) IN
       /\ queue' = r.rest
       /\ werr' = IF r.native THEN c ELSE werr
       /\ readLog' = IF observe /\ r.ok THEN Append(readLog, r.expr[1]) ELSE readLog
       /\ last' = [op |-> "get_expr", before |-> queue, arg |-> <<>>, res |-> r]
    /\ late' = [late EXCEPT ![link] = late[link] \/ closes[link] > 0]
    /\ UNCHANGED <<link, opened, made, closes, written>>
    /\ UNCHANGED restVars

GetExpr(c) == DoGetExpr(c, TRUE)

Next ==
    /\ \/ \E e \in Exprs : PutExpr(e)
       \/ \E c \in ErrCodes : GetExpr(c)
    /\ UNCHANGED addrVars

Spec == Init /\ [][Next]_vars

\* ------------------------------------------------------------ wire streams
\* A link whose peer wrote the pending tokens, so that the stream need not
\* be the tokens of expressions: a Real that is not finite, a Symbol name
\* without a context, a tag get_expr has no arm for, a tag wider than 8 bits
\* (with a payload that a read of an integer accepts, and with one that it
\* refuses).
OtherTag == WSTKFUNC + 1

WideTag == WSTKINT + U8

KnownTags == {WSTKINT, WSTKREAL, WSTKSTR, WSTKSYM, WSTKFUNC}

WireTokens ==
    {Token(WSTKINT, <<2>>), Token(WSTKREAL, F64Inf), Token(WSTKREAL, F64NegInf),
     Token(WSTKREAL, F64NaN),
     Token(WSTKSYM, QualName), Token(WSTKSYM, BareName),
     Token(OtherTag, <<>>), Token(WideTag, <<>>), Token(WideTag, <<2>>)}
        \cup {Token(WSTKFUNC, <<n>>) : n \in 0..MaxArgs}

WireStreams == SeqsUpTo(WireTokens, MaxWire)

InitWire ==
    /\ AddrIdle
    /\ RestIdle
    /\ env_ok = TRUE
    /\ link = 1
    /\ opened = 1
    /\ made = {1}
    /\ closes = [h \in 1..MaxLinks |-> 0]
    /\ late = [h \in 1..MaxLinks |-> FALSE]
    /\ queue \in WireStreams
    /\ werr = MLEOK
    /\ written = <<>>
    /\ readLog = <<>>
    /\ last = NoOp

WireGetExpr(c) == DoGetExpr(c, FALSE)

NextWire == (\E c \in ErrCodes : WireGetExpr(c)) /\ UNCHANGED addrVars

SpecWire == InitWire /\ [][NextWire]_vars

\* ------------------------------------------------ link lifecycle and puts
\* A Link value from its constructor to its drop, written one primitive at
\* a time and read with get_expr.
NonFinite == {F64Inf, F64NaN}

SymbolNames == {QualName, BareName}

RawTags == {WSTKFUNC, OtherTag, WideTag}

InitLink ==
    /\ AddrIdle
    /\ RestIdle
    /\ env_ok = TRUE
    /\ link = NoLink
    /\ opened = 0
    /\ made = {}
    /\ closes = [h \in 1..MaxLinks |-> 0]
    /\ late = [h \in 1..MaxLinks |-> FALSE]
    /\ queue = <<>>
    /\ werr = MLEOK
    /\ written = <<>>
    /\ readLog = <<>>
    /\ last = NoOp

\* The result of an operation that returns Result<(), Error> or no value.
Unit == IntegerE(0)

\* Link::new_loopback(): `stdenv()?` returns early when there is no
\* environment; WSLoopbackOpen returns a handle (null or not) and an error
\* code.
NewLoopback(null, err) ==
    /\ link = NoLink
    /\ ~panicked
    /\ opened < MaxLinks
    /\ opencall' = [NoCall EXCEPT !.fn = "new_loopback"]
    /\ argv' = <<>>
    /\ c_strings' = NoStrings
    /\ IF ~env_ok
       THEN /\ native_opens' = 0
            /\ opened' = opened
            /\ link' = NoLink
            /\ made' = made
            /\ last' = [op |-> "new_loopback", before |-> <<>>, arg |-> <<>>,
                        res |-> Err(stdenv_error, <<>>)]
       ELSE /\ native_opens' = 1
            /\ opened' = IF null THEN opened ELSE opened + 1
            /\ IF null \/ err # MLEOK
               THEN /\ link' = NoLink
                    /\ made' = made
                    /\ last' = [op |-> "new_loopback", before |-> <<>>, arg |-> <<>>,
                                res |-> Err(Error_from_code(err), <<>>)]
               ELSE /\ link' = opened + 1
                    /\ made' = made \cup {opened + 1}
                    /\ last' = [op |-> "new_loopback", before |-> <<>>, arg |-> <<>>,
                                res |-> Ok(Unit, <<>>)]
    /\ queue' = <<>>
    /\ werr' = MLEOK
    /\ UNCHANGED <<closes, late, written, readLog>>
    /\ UNCHANGED <<env_ok, panicked, wmsg, calls, buf, dest_queue, dest_werr>>

\* What is left of an operation that panicked: it returns nothing.
Unwound(rest) == Err(NoError, rest)

\* `return Err(self.error_or_unknown())` after the n-th native call of the
\* operation reported failure, having recorded the code c and the message m
\* on the link.
fail_with(name, n, c, m) ==
    LET r == error_or_unknown(c, m) IN
    /\ calls' = n
    /\ werr' = r.code
    /\ wmsg' = m
    /\ buf' = [obtained |-> r.obtained, released |-> r.released]
    /\ panicked' = r.panic
    /\ last' = [op |-> name, before |-> queue, arg |-> <<>>,
                res |-> IF r.panic THEN Unwound(queue)
                        ELSE [Err(r.opt[1], queue) EXCEPT !.native = TRUE]]

\* `Ok(val)` after the native call succeeded.
succeed_with(name, val) ==
    /\ calls' = 1
    /\ buf' = NoBuf
    /\ last' = [op |-> name, before |-> queue, arg |-> <<>>, res |-> Ok(val, queue)]
    /\ UNCHANGED <<werr, wmsg, panicked>>

\* link.activate(): WSActivate returns 0 on failure.
Activate(failed, c, m) ==
    /\ link # NoLink
    /\ ~panicked
    /\ IF failed THEN fail_with("activate", 1, c, m) ELSE succeed_with("activate", Unit)
    /\ late' = [late EXCEPT ![link] = late[link] \/ closes[link] > 0]
    /\ UNCHANGED <<link, opened, made, closes, queue, written, readLog>>
    /\ UNCHANGED <<env_ok, opencall, argv, native_opens, c_strings, dest_queue, dest_werr>>

WirePut(name, q, e) ==
    /\ link # NoLink
    /\ Len(queue) < MaxPending
    /\ queue' = q
    /\ last' = [op |-> name, before |-> queue, arg |-> <<e>>, res |-> Ok(e, q)]
    /\ late' = [late EXCEPT ![link] = late[link] \/ closes[link] > 0]
    /\ UNCHANGED <<link, opened, made, closes, werr, written, readLog>>
    /\ UNCHANGED restVars

PutI64(n) == WirePut("put_i64", put_i64(queue, n), IntegerE(n))

PutF64(r) == WirePut("put_f64", put_f64(queue, r), RealE(r))

PutSymbol(s) == WirePut("put_symbol", put_symbol(queue, s), SymbolE(s))

PutRawType(t) == WirePut("put_raw_type", put_raw_type(queue, t), IntegerE(t))

\* put_arg_count completes the Function token put_raw_type started.
PutArgCount(n) ==
    /\ link # NoLink
    /\ queue # <<>>
    /\ queue[Len(queue)] = Token(WSTKFUNC, <<>>)
    /\ queue' = put_arg_count(queue, n)
    /\ last' = [op |-> "put_arg_count", before |-> queue, arg |-> <<IntegerE(n)>>,
                res |-> Ok(IntegerE(n), put_arg_count(queue, n))]
    /\ late' = [late EXCEPT ![link] = late[link] \/ closes[link] > 0]
    /\ UNCHANGED <<link, opened, made, closes, werr, written, readLog>>
    /\ UNCHANGED restVars

\* impl Drop for Link: WSClose(raw_link).
drop(h) == [closes EXCEPT ![h] = closes[h] + 1]

\* The Link value goes out of scope.
DropLink ==
    /\ link # NoLink
    /\ closes' = drop(link)
    /\ link' = NoLink
    /\ last' = [op |-> "drop", before |-> queue, arg |-> <<IntegerE(link)>>,
                res |-> Ok(Unit, <<>>)]
    /\ queue' = <<>>
    /\ UNCHANGED <<opened, made, late, werr, written, readLog>>
    /\ UNCHANGED restVars

\* Mutant of close: WSClose is called in the body, and again by the drop.
close_and_drop(h) == [closes EXCEPT ![h] = closes[h] + 2]

\* link.close(): the body is empty; `self` is dropped as it returns.
close(h) == drop(h)

Close ==
    /\ link # NoLink
    /\ closes' = close(link)
    /\ link' = NoLink
    /\ last' = [op |-> "close", before |-> queue, arg |-> <<IntegerE(link)>>,
                res |-> Ok(Unit, <<>>)]
    /\ queue' = <<>>
    /\ UNCHANGED <<opened, made, late, werr, written, readLog>>
    /\ UNCHANGED restVars

NextLink ==
    /\ \/ \E null \in BOOLEAN, err \in {MLEOK} \cup ErrCodes : NewLoopback(null, err)
       \/ \E failed \in BOOLEAN, c \in {MLEOK} \cup ErrCodes : Activate(failed, c, MsgText)
       \/ PutI64(2)
       \/ \E r \in NonFinite : PutF64(r)
       \/ \E s \in SymbolNames : PutSymbol(s)
       \/ \E t \in RawTags : PutRawType(t)
       \/ \E n \in 0..MaxArgs : PutArgCount(n)
       \/ \E c \in ErrCodes : WireGetExpr(c)
       \/ DropLink
       \/ Close
    /\ UNCHANGED addrVars

SpecLink == InitLink /\ [][NextLink]_vars

\* ------------------------------------------------------ link constructors
\* The constructors that open a link from an argument list, whether or not
\* the process has an environment handle.
Names == {Str("8080@127.0.0.1"), NulStr("8080@127.0.0.1")}

OptionStrings == {Str("MLUseUUIDTCPIPConnection"), NulStr("MLUseUUIDTCPIPConnection")}

OptionLists == SeqsUpTo(OptionStrings, MaxOpts)

InitOpen ==
    /\ AddrIdle
    /\ RestIdle
    /\ env_ok \in BOOLEAN
    /\ link = NoLink
    /\ opened = 0
    /\ made = {}
    /\ closes = [h \in 1..MaxLinks |-> 0]
    /\ late = [h \in 1..MaxLinks |-> FALSE]
    /\ queue = <<>>
    /\ werr = MLEOK
    /\ written = <<>>
    /\ readLog = <<>>
    /\ last = NoOp

\* The position of the first argument that holds a NUL byte, 0 if none does.
first_nul(args) ==
    IF \E i \in 1..Len(args) : args[i].nul
    THEN CHOOSE i \in 1..Len(args) : args[i].nul /\ \A j \in 1..(i - 1) : ~args[j].nul
    ELSE 0

\* Link::open_with_args(args), for the constructor call `call`:
\* CString::new(..).expect(..) panics at the first argument that holds a
\* NUL byte; `stdenv()?` returns early when there is no environment;
\* WSOpenArgcArgv returns a handle (null or not) and an error code; the C
\* strings are freed after it.
open_with_args(call, args, null, err) ==
    /\ link = NoLink
    /\ ~panicked
    /\ opened < MaxLinks
    /\ opencall' = call
    /\ IF first_nul(args) # 0
       THEN /\ panicked' = TRUE
            /\ c_strings' = [allocated |-> first_nul(args) - 1, freed |-> 0]
            /\ argv' = <<>>
            /\ native_opens' = 0
            /\ last' = [op |-> "open_with_args", before |-> <<>>, arg |-> <<>>,
                        res |-> Unwound(<<>>)]
            /\ UNCHANGED <<link, opened, made>>
       ELSE IF ~env_ok
       THEN /\ panicked' = FALSE
            /\ c_strings' = [allocated |-> Len(args), freed |-> 0]
            /\ argv' = <<>>
            /\ native_opens' = 0
            /\ last' = [op |-> "open_with_args", before |-> <<>>, arg |-> <<>>,
                        res |-> Err(stdenv_error, <<>>)]
            /\ UNCHANGED <<link, opened, made>>
       ELSE /\ panicked' = FALSE
            /\ c_strings' = [allocated |-> Len(args), freed |-> Len(args)]
            /\ argv' = args
            /\ native_opens' = 1
            /\ opened' = IF null THEN opened ELSE opened + 1
            /\ IF null \/ err # MLEOK
               THEN /\ link' = NoLink
                    /\ made' = made
                    /\ last' = [op |-> "open_with_args", before |-> <<>>, arg |-> <<>>,
                                res |-> Err(Error_from_code(err), <<>>)]
               ELSE /\ link' = opened + 1
                    /\ made' = made \cup {opened + 1}
                    /\ last' = [op |-> "open_with_args", before |-> <<>>, arg |-> <<>>,
                                res |-> Ok(Unit, <<>>)]
    /\ queue' = <<>>
    /\ werr' = MLEOK
    /\ UNCHANGED <<closes, late, written, readLog>>
    /\ UNCHANGED <<env_ok, wmsg, calls, buf, dest_queue, dest_werr>>

\* Link::listen(protocol, name)
Listen(protocol, name, null, err) ==
    open_with_args([fn |-> "listen", protocol |-> protocol, name |-> name, options |-> <<>>],
                   listen(protocol, name), null, err)

\* Link::connect(protocol, name)
Connect(protocol, name, null, err) ==
    open_with_args([fn |-> "connect", protocol |-> protocol, name |-> name, options |-> <<>>],
                   connect(protocol, name), null, err)

\* Link::connect_with_options(protocol, name, options)
ConnectWithOptions(protocol, name, options, null, err) ==
    open_with_args([fn |-> "connect_with_options", protocol |-> protocol, name |-> name,
                    options |-> options],
                   connect_with_options(protocol, name, options), null, err)

\* link.link_name(): WSName returns the name, as UTF-8 text or as bytes that
\* are not UTF-8; `to_str().unwrap()` panics on the latter.
LinkName(m) ==
    /\ link # NoLink
    /\ ~panicked
    /\ panicked' = (m = MsgBytes)
    /\ last' = [op |-> "link_name", before |-> queue, arg |-> <<>>,
                res |-> IF m = MsgBytes THEN Unwound(queue) ELSE Ok(StringE(Text), queue)]
    /\ late' = [late EXCEPT ![link] = late[link] \/ closes[link] > 0]
    /\ UNCHANGED <<link, opened, made, closes, queue, werr, written, readLog>>
    /\ UNCHANGED <<env_ok, opencall, argv, native_opens, c_strings, wmsg, calls, buf,
                   dest_queue, dest_werr>>

NextOpen ==
    /\ \/ \E null \in BOOLEAN, err \in {MLEOK} \cup ErrCodes : NewLoopback(null, err)
       \/ \E p \in Protocols, n \in Names, null \in BOOLEAN, err \in {MLEOK} \cup ErrCodes :
            Listen(p, n, null, err)
       \/ \E p \in Protocols, n \in Names, null \in BOOLEAN, err \in {MLEOK} \cup ErrCodes :
            Connect(p, n, null, err)
       \/ \E p \in Protocols, n \in Names, o \in OptionLists, null \in BOOLEAN,
             err \in {MLEOK} \cup ErrCodes :
            ConnectWithOptions(p, n, o, null, err)
       \/ \E m \in {MsgText, MsgBytes} : LinkName(m)
       \/ DropLink
    /\ UNCHANGED addrVars

SpecOpen == InitOpen /\ [][NextOpen]_vars

\* ------------------------------------------------------------ bulk transfer
\* Two loopback links, `a` (link, queue, werr, wmsg) and `b` (dest_queue,
\* dest_werr): a is written, its expressions are transferred to b, and b is
\* read.
\* WSTransferExpression(dest, src): the native layer moves the expression at
\* the read cursor of src to dest, and returns 0 when src holds no whole
\* expression (none, one that lacks arguments, or a Function token whose
\* argument count was not written).
WSTransferExpression(dst, src) ==
    LET n == SubtreeLen(src, 1) IN
    IF /\ src # <<>>
       /\ n <= Len(src)
       /\ \A i \in 1..n : src[i].tag = WSTKFUNC => Len(src[i].val) = 1
    THEN [result |-> 1, dst |-> dst \o SubSeq(src, 1, n),
          src |-> SubSeq(src, n + 1, Len(src))]
    ELSE [result |-> 0, dst |-> dst, src |-> src]

\* Mutant of transfer_expr_to: the two links are passed in the other order.
transfer_expr_to_swapped(self, dest) ==
    LET t == WSTransferExpression(self, dest) IN
    [ok |-> t.result # 0, self |-> t.dst, dest |-> t.src]

\* `sys::WSTransferExpression(dest.raw_link, self.raw_link)`
transfer_expr_to(self, dest) ==
    LET t == WSTransferExpression(dest, self) IN
    [ok |-> t.result # 0, self |-> t.src, dest |-> t.dst]

\* `return Err(self.error_or_unknown())`: the link whose error state
\* (code, message) the error of a failed transfer is built from.
transfer_error(self, dest) == self

\* The faults of a transfer: none, a failure on the source, a failure on
\* the destination.
Faults == {"none", "source", "dest"}

InitXfer ==
    /\ AddrIdle
    /\ RestIdle
    /\ env_ok = TRUE
    /\ link = 1
    /\ opened = 2
    /\ made = {1, 2}
    /\ closes = [h \in 1..MaxLinks |-> 0]
    /\ late = [h \in 1..MaxLinks |-> FALSE]
    /\ queue = <<>>
    /\ werr = MLEOK
    /\ written = <<>>
    /\ readLog = <<>>
    /\ last = NoOp

\* a.transfer_expr_to(&mut b); a failure on the source records the code c
\* and the message m on a, a failure on the destination records the code c
\* on b (whose message is text).
TransferExprTo(fault, c, m) ==
    /\ link # NoLink
    /\ ~panicked
    /\ Len(dest_queue) < MaxPending
    /\ LET t == transfer_expr_to(queue, dest_queue) IN
       IF fault = "none" /\ t.ok
       THEN /\ queue' = t.self
            /\ dest_queue' = t.dest
            /\ calls' = 1
            /\ buf' = NoBuf
            /\ last' = [op |-> "transfer_expr_to", before |-> queue, arg |-> dest_queue,
                        res |-> Ok(Unit, t.self)]
            /\ UNCHANGED <<werr, wmsg, panicked, dest_werr>>
       ELSE LET self == IF fault = "dest" THEN <<werr, wmsg>> ELSE <<c, m>>
                dest == IF fault = "dest" THEN <<c, MsgText>> ELSE <<dest_werr, MsgText>>
                from == transfer_error(self, dest)
            IN  /\ fail_with("transfer_expr_to", 1, from[1], from[2])
                /\ dest_werr' = dest[1]
                /\ UNCHANGED <<queue, dest_queue>>
    /\ late' = [late EXCEPT ![link] = late[link] \/ closes[link] > 0]
    /\ UNCHANGED <<link, opened, made, closes, written, readLog>>
    /\ UNCHANGED <<env_ok, opencall, argv, native_opens, c_strings>>

\* b.get_expr()
DestGetExpr(c) ==
    /\ ~panicked
    /\ LET r == get_expr(dest_queue, c) IN
       /\ dest_queue' = r.rest
       /\ dest_werr' = IF r.native THEN c ELSE dest_werr
       /\ last' = [op |-> "dest.get_expr", before |-> dest_queue, arg |-> <<>>, res |-> r]
    /\ UNCHANGED <<link, opened, made, closes, late, queue, werr, written, readLog>>
    /\ UNCHANGED <<env_ok, opencall, argv, native_opens, c_strings, panicked, wmsg, calls, buf>>

\* b.put_i64(n)
DestPutI64(n) ==
    /\ ~panicked
    /\ Len(dest_queue) < MaxPending
    /\ dest_queue' = put_i64(dest_queue, n)
    /\ last' = [op |-> "dest.put_i64", before |-> dest_queue, arg |-> <<IntegerE(n)>>,
                res |-> Ok(IntegerE(n), put_i64(dest_queue, n))]
    /\ UNCHANGED <<link, opened, made, closes, late, queue, werr, written, readLog>>
    /\ UNCHANGED <<env_ok, opencall, argv, native_opens, c_strings, panicked, wmsg, calls, buf,
                   dest_werr>>

\* a is written one primitive at a time: the integer of the documentation
\* test, and Function tokens with their argument counts.
NextXfer ==
    /\ \/ PutI64(5)
       \/ PutRawType(WSTKFUNC)
       \/ \E n \in 0..MaxArgs : PutArgCount(n)
       \/ DestPutI64(7)
       \/ \E c \in ErrCodes : TransferExprTo("none", c, MsgText)
       \/ \E c \in ErrCodes : DestGetExpr(c)
    /\ UNCHANGED addrVars

SpecXfer == InitXfer /\ [][NextXfer]_vars

\* ------------------------------------------------------------ link errors
\* Two loopback links as above; the operations that report the failure of
\* one native call, and error(), error_message() and clear_error().
\* WSTKERR and ILLEGALPKT are the failure results of WSGetNext and
\* WSNextPacket; RETURNPKT is a packet type.
ILLEGALPKT == 0

RETURNPKT == 3

\* An operation whose native call returns 0 on failure and whose success
\* carries no value: WSActivate, WSFlush, WSNewPacket.
UnitCall(name, failed, c, m) ==
    /\ link # NoLink
    /\ ~panicked
    /\ IF failed THEN fail_with(name, 1, c, m) ELSE succeed_with(name, Unit)
    /\ late' = [late EXCEPT ![link] = late[link] \/ closes[link] > 0]
    /\ UNCHANGED <<link, opened, made, closes, queue, written, readLog>>
    /\ UNCHANGED <<env_ok, opencall, argv, native_opens, c_strings, dest_queue, dest_werr>>

\* link.flush()
Flush(failed, c, m) == UnitCall("flush", failed, c, m)

\* link.new_packet()
NewPacket(failed, c, m) == UnitCall("new_packet", failed, c, m)

\* An operation whose native call returns a value, `sentinel` on failure.
ValueCall(name, value, sentinel, c, m) ==
    /\ link # NoLink
    /\ ~panicked
    /\ IF value = sentinel
       THEN fail_with(name, 1, c, m)
       ELSE succeed_with(name, IntegerE(value))
    /\ late' = [late EXCEPT ![link] = late[link] \/ closes[link] > 0]
    /\ UNCHANGED <<link, opened, made, closes, queue, written, readLog>>
    /\ UNCHANGED <<env_ok, opencall, argv, native_opens, c_strings, dest_queue, dest_werr>>

\* link.raw_get_next(): WSGetNext returns the type of the next token,
\* WSTKERR when there is none or when it fails.
RawGetNext(failed, c, m) ==
    ValueCall("raw_get_next", IF failed THEN WSTKERR ELSE get_raw_type(queue), WSTKERR, c, m)

\* link.raw_next_packet(): WSNextPacket returns a packet type, ILLEGALPKT
\* when it fails.
RawNextPacket(failed, c, m) ==
    ValueCall("raw_next_packet", IF failed THEN ILLEGALPKT ELSE RETURNPKT, ILLEGALPKT, c, m)

\* The Option<Error> that error() returns, as a result.
OptionResult(r, rest) ==
    IF r.panic THEN Unwound(rest)
    ELSE IF r.opt = <<>> THEN Ok(Unit, rest) ELSE Err(r.opt[1], rest)

\* link.error(), and link.error_message(), which is error() with the code
\* dropped from what is returned.
ErrorCall(name) ==
    /\ link # NoLink
    /\ ~panicked
    /\ LET r == error(werr, wmsg) IN
       /\ werr' = r.code
       /\ buf' = [obtained |-> r.obtained, released |-> r.released]
       /\ panicked' = r.panic
       /\ last' = [op |-> name, before |-> queue, arg |-> <<>>,
                   res |-> IF name = "error_message" /\ ~r.panic /\ r.opt # <<>>
                           THEN Err([r.opt[1] EXCEPT !.code = <<>>], queue)
                           ELSE OptionResult(r, queue)]
    /\ calls' = 0
    /\ late' = [late EXCEPT ![link] = late[link] \/ closes[link] > 0]
    /\ UNCHANGED <<link, opened, made, closes, queue, written, readLog>>
    /\ UNCHANGED <<env_ok, opencall, argv, native_opens, c_strings, wmsg, dest_queue,
                   dest_werr>>

\* link.clear_error(): WSClearError.
ClearError ==
    /\ link # NoLink
    /\ ~panicked
    /\ werr' = MLEOK
    /\ calls' = 1
    /\ buf' = NoBuf
    /\ last' = [op |-> "clear_error", before |-> queue, arg |-> <<>>, res |-> Ok(Unit, queue)]
    /\ late' = [late EXCEPT ![link] = late[link] \/ closes[link] > 0]
    /\ UNCHANGED <<link, opened, made, closes, queue, written, readLog>>
    /\ UNCHANGED <<env_ok, opencall, argv, native_opens, c_strings, panicked, wmsg,
                   dest_queue, dest_werr>>

NextErr ==
    /\ \/ PutI64(5)
       \/ \E failed \in BOOLEAN, c \in {MLEOK} \cup ErrCodes, m \in Messages :
            Activate(failed, c, m)
       \/ \E failed \in BOOLEAN, c \in {MLEOK} \cup ErrCodes, m \in Messages :
            Flush(failed, c, m)
       \/ \E failed \in BOOLEAN, c \in {MLEOK} \cup ErrCodes, m \in Messages :
            RawGetNext(failed, c, m)
       \/ \E failed \in BOOLEAN, c \in {MLEOK} \cup ErrCodes, m \in Messages :
            RawNextPacket(failed, c, m)
       \/ \E failed \in BOOLEAN, c \in {MLEOK} \cup ErrCodes, m \in Messages :
            NewPacket(failed, c, m)
       \/ \E f \in Faults, c \in {MLEOK} \cup ErrCodes, m \in Messages : TransferExprTo(f, c, m)
       \/ ErrorCall("error")
       \/ ErrorCall("error_message")
       \/ ClearError
    /\ UNCHANGED addrVars

SpecErr == InitXfer /\ [][NextErr]_vars

\* ------------------------------------------------------ address fallback
\* The candidate lists: the first n addresses that to_socket_addrs yields.
AddrLists == {[i \in 1..n |-> i] : n \in 0..MaxAddrs}

\* What a call of func can return.  The closures given to for_each_addr
\* return a link, the error of open_with_args (that of stdenv(), or
\* Error::from_code of the code WSOpenArgcArgv reported) or the error of
\* activate (error_or_unknown of the link).
AttemptErrors ==
    {stdenv_error}
        \cup {Error_from_code(c) : c \in {MLEOK} \cup ErrCodes}
        \cup {error_or_unknown(c, m).opt[1] : c \in {MLEOK} \cup ErrCodes, m \in TextMessages}

AttemptResults ==
    {[ok |-> TRUE, err |-> NoError]} \cup {[ok |-> FALSE, err |-> e] : e \in AttemptErrors}

\* Mutant of record_error: the first error is kept.
record_error_first(le, err) == IF le = <<>> THEN <<err>> ELSE le

\* `Err(err) => last_error = Some(err)`
record_error(le, err) == <<err>>

\* Mutant of for_each_end: an empty list yields the error of code MLEOK.
for_each_end_from_code(le) == IF le = <<>> THEN Error_from_code(MLEOK) ELSE le[1]

\* `Err(last_error.unwrap_or_else(|| Error::custom("socket address list is empty")))`
for_each_end(le) ==
    IF le = <<>> THEN Error_custom("socket address list is empty", <<>>) ELSE le[1]

\* for_each_addr(addrs, func) is called.
ForEachStart(addrs, f) ==
    /\ pc = "idle"
    /\ pc' = "loop"
    /\ candidates' = addrs
    /\ func' = f
    /\ idx' = 1
    /\ last_error' = <<>>
    /\ attempts' = <<>>
    /\ ret' = NoRet

\* One turn of `for addr in addrs { match func(addr) { .. } }`.
ForEachAttempt ==
    /\ pc = "loop"
    /\ idx <= Len(candidates)
    /\ attempts' = Append(attempts, candidates[idx])
    /\ IF func[idx].ok
       THEN /\ ret' = [ok |-> TRUE, val |-> <<candidates[idx]>>, err |-> NoError]
            /\ pc' = "done"
            /\ UNCHANGED <<idx, last_error>>
       ELSE /\ last_error' = record_error(last_error, func[idx].err)
            /\ idx' = idx + 1
            /\ UNCHANGED <<pc, ret>>
    /\ UNCHANGED <<candidates, func>>

\* The loop is over and no call succeeded.
ForEachEnd ==
    /\ pc = "loop"
    /\ idx > Len(candidates)
    /\ ret' = [ok |-> FALSE, val |-> <<>>, err |-> for_each_end(last_error)]
    /\ pc' = "done"
    /\ UNCHANGED <<candidates, func, idx, last_error, attempts>>

NextAddr ==
    /\ \/ \E addrs \in AddrLists :
            \E f \in [1..Len(addrs) -> AttemptResults] : ForEachStart(addrs, f)
       \/ ForEachAttempt
       \/ ForEachEnd
    /\ UNCHANGED <<linkVars, restVars>>

SpecAddr == InitLink /\ [][NextAddr]_vars

\* ------------------------------------------------- link server fallback
\* Link::connect_to_link_server(addrs): for_each_addr over the resolved
\* addresses with the closure that connects to the address and activates
\* the link.
\* `format!("{}@{}", addr.port(), addr.ip())`
tcpip_link_name(addr) == Str(<<"port", addr, "@", "ip", addr>>)

\* The option that tells the peer is a LinkServer.
ServerOptions == <<Str("MLUseUUIDTCPIPConnection")>>

\* The error of to_socket_addrs() wrapped by connect_to_link_server.
resolve_error == Error_custom("error connecting to LinkServer address", <<"io">>)

\* The handles whose WSClose has not been called.
StillOpen == {h \in 1..opened : closes[h] = 0}

\* connect_to_link_server(addrs) is called: to_socket_addrs() fails, or it
\* yields the candidates and for_each_addr starts.
ConnectToLinkServer(resolved, addrs) ==
    /\ pc = "idle"
    /\ link = NoLink
    /\ ~panicked
    /\ candidates' = IF resolved THEN addrs ELSE <<>>
    /\ func' = <<>>
    /\ idx' = 1
    /\ last_error' = <<>>
    /\ attempts' = <<>>
    /\ IF resolved
       THEN pc' = "loop" /\ ret' = NoRet
       ELSE pc' = "done" /\ ret' = [ok |-> FALSE, val |-> <<>>, err |-> resolve_error]
    /\ last' = [op |-> "connect_to_link_server", before |-> <<>>, arg |-> <<>>,
                res |-> Ok(Unit, <<>>)]
    /\ UNCHANGED <<link, opened, made, closes, late, queue, werr, written, readLog>>
    /\ UNCHANGED restVars

\* The closure failed with err: `Err(err) => last_error = Some(err)`.
attempt_failed(err) ==
    /\ func' = Append(func, [ok |-> FALSE, err |-> err])
    /\ last_error' = record_error(last_error, err)
    /\ idx' = idx + 1
    /\ link' = NoLink
    /\ UNCHANGED <<pc, ret>>

\* One turn of the for loop of for_each_addr with the closure of
\* connect_to_link_server: connect_with_options(TCPIP, name, options)?, then
\* link.activate()?, then Ok(link).  A link whose activate() failed is
\* dropped as the closure returns, or as the panic of error_or_unknown
\* unwinds.
ConnectAttempt(null, err, failed, c, m) ==
    LET args == connect_with_options("Protocol::TCPIP", tcpip_link_name(candidates[idx]),
                                     ServerOptions)
        h == opened + 1
        r == error_or_unknown(c, m)
    IN
    /\ pc = "loop"
    /\ idx <= Len(candidates)
    /\ ~panicked
    /\ null \/ ~env_ok \/ opened < MaxLinks
    /\ attempts' = Append(attempts, candidates[idx])
    /\ opencall' = [fn |-> "connect_with_options", protocol |-> "Protocol::TCPIP",
                    name |-> tcpip_link_name(candidates[idx]), options |-> ServerOptions]
    /\ last' = [op |-> "attempt", before |-> <<>>, arg |-> <<IntegerE(h)>>,
                res |-> Ok(Unit, <<>>)]
    /\ IF ~env_ok
       THEN /\ c_strings' = [allocated |-> Len(args), freed |-> 0]
            /\ argv' = <<>>
            /\ native_opens' = 0
            /\ attempt_failed(stdenv_error)
            /\ UNCHANGED <<opened, made, closes, werr, wmsg, calls, buf, panicked>>
       ELSE /\ c_strings' = [allocated |-> Len(args), freed |-> Len(args)]
            /\ argv' = args
            /\ native_opens' = 1
            /\ opened' = IF null THEN opened ELSE h
            /\ IF null \/ err # MLEOK
               THEN /\ attempt_failed(Error_from_code(err))
                    /\ UNCHANGED <<made, closes, werr, wmsg, calls, buf, panicked>>
               ELSE /\ made' = made \cup {h}
                    /\ IF ~failed
                       THEN /\ func' = Append(func, [ok |-> TRUE, err |-> NoError])
                            /\ ret' = [ok |-> TRUE, val |-> <<h>>, err |-> NoError]
                            /\ pc' = "done"
                            /\ link' = h
                            /\ calls' = 1
                            /\ buf' = NoBuf
                            /\ UNCHANGED <<idx, last_error, closes, werr, wmsg, panicked>>
                       ELSE /\ calls' = 1
                            /\ werr' = r.code
                            /\ wmsg' = m
                            /\ buf' = [obtained |-> r.obtained, released |-> r.released]
                            /\ panicked' = r.panic
                            /\ closes' = drop(h)
                            /\ IF r.panic
                               THEN /\ link' = NoLink
                                    /\ UNCHANGED <<func, last_error, idx, pc, ret>>
                               ELSE attempt_failed(r.opt[1])
    /\ UNCHANGED <<candidates, late, queue, written, readLog, env_ok, dest_queue, dest_werr>>

\* for_each_addr returns the last error once every candidate has failed.
ServerEnd ==
    /\ ~panicked
    /\ ForEachEnd
    /\ UNCHANGED <<linkVars, restVars>>

\* The caller drops the link connect_to_link_server returned.
ServerDrop ==
    /\ pc = "done"
    /\ DropLink
    /\ UNCHANGED addrVars

NextServer ==
    \/ \E resolved \in BOOLEAN, addrs \in AddrLists : ConnectToLinkServer(resolved, addrs)
    \/ \E null \in BOOLEAN, err \in {MLEOK} \cup ErrCodes, failed \in BOOLEAN,
          c \in {MLEOK} \cup ErrCodes, m \in Messages :
        ConnectAttempt(null, err, failed, c, m)
    \/ ServerEnd
    \/ ServerDrop

SpecServer == InitOpen /\ [][NextServer]_vars

\* ---------------------------------------------------------------- claims
IsPrefix(s, t) == Len(s) <= Len(t) /\ \A i \in 1..Len(s) : s[i] = t[i]

\* The tokens the last operation appended to the link.
Appended == SubSeq(queue, Len(last.before) + 1, Len(queue))

\* C1: round trip. When the one expression written so far to the loopback
\* link is read back, get_expr returns Ok with an expression equal to the
\* one written and leaves no token pending.
C1_RoundTrip ==
    (last.op = "get_expr" /\ Len(written) = 1 /\ last.before # <<>>)
        => /\ last.res.ok
           /\ last.res.expr = <<written[1]>>
           /\ queue = <<>>

\* A nested Normal expression has made the round trip.
C1_Witness ==
    /\ last.op = "get_expr"
    /\ Len(written) = 1
    /\ last.before # <<>>
    /\ last.res.ok
    /\ last.res.expr[1].kind = "Normal"
    /\ last.res.expr[1].head[1].kind = "Normal"
    /\ Len(last.res.expr[1].contents) = MaxArgs
    /\ queue = <<>>

\* C2: FIFO. The expressions get_expr has returned are the first of the
\* expressions put_expr has written, in the order written; a read with
\* tokens pending returns an expression, and the link is drained exactly
\* when every written expression has been returned.
C2_Fifo ==
    /\ IsPrefix(readLog, written)
    /\ (queue = <<>>) <=> (Len(readLog) = Len(written))
    /\ (last.op = "get_expr" /\ last.before # <<>>) => last.res.ok

\* Two different expressions were written, the first was read before the
\* second was written, and both have been read back.
C2_Witness ==
    /\ Len(readLog) >= 2
    /\ readLog[1] # readLog[2]
    /\ last.op = "get_expr"
    /\ Len(last.before) = Len(put_expr(<<>>, readLog[2]))
    /\ queue = <<>>

\* The concatenation of the token sequences of es, left to right.
RECURSIVE TokensOfAll(_)
TokensOfAll(es) ==
    IF es = <<>> THEN <<>> ELSE put_expr(<<>>, Head(es)) \o TokensOfAll(Tail(es))

\* C10: put_expr of Normal(head, args) appends the Function tag with the
\* argument count Len(args), then the tokens of head, then the tokens of
\* each argument left to right; the appended tokens are one subtree whose
\* argument counts match the subtrees that follow them.
C10_EncodeOrder ==
    (last.op = "put_expr" /\ last.arg[1].kind = "Normal")
        => /\ Appended =
                <<Token(WSTKFUNC, <<Len(last.arg[1].contents)>>)>>
                    \o put_expr(<<>>, last.arg[1].head[1])
                    \o TokensOfAll(last.arg[1].contents)
           /\ SubtreeLen(Appended, 1) = Len(Appended)
           /\ SubSeq(queue, 1, Len(last.before)) = last.before

\* A Normal expression with a Normal head and MaxArgs arguments, not all
\* alike, was written behind tokens already pending.
C10_Witness ==
    /\ last.op = "put_expr"
    /\ last.before # <<>>
    /\ last.arg[1].kind = "Normal"
    /\ last.arg[1].head[1].kind = "Normal"
    /\ Len(last.arg[1].contents) = MaxArgs
    /\ last.arg[1].contents[1] # last.arg[1].contents[MaxArgs]

\* The attempts that succeed with every earlier attempt failing.
FirstOk ==
    {k \in 1..Len(candidates) : func[k].ok /\ \A j \in 1..(k - 1) : ~func[j].ok}

\* C3: for_each_addr calls func on the candidates in input order; it
\* returns the result of the first call that succeeds and calls func on no
\* later candidate; if every call fails it returns the error of the call
\* on the last candidate.
C3_Fallback ==
    /\ IsPrefix(attempts, candidates)
    /\ (pc = "done" /\ candidates # <<>>)
        => IF FirstOk # {}
           THEN LET k == CHOOSE k \in FirstOk : TRUE IN
                /\ ret.ok
                /\ ret.val = <<candidates[k]>>
                /\ attempts = SubSeq(candidates, 1, k)
           ELSE /\ ~ret.ok
                /\ ret.val = <<>>
                /\ ret.err = func[Len(candidates)].err
                /\ attempts = candidates

\* Every call failed, the first and the last with different errors.
C3_Witness ==
    /\ pc = "done"
    /\ Len(candidates) = MaxAddrs
    /\ ~ret.ok
    /\ attempts = candidates
    /\ func[1].err # func[MaxAddrs].err

\* C4: with an empty candidate list for_each_addr calls func on nothing
\* and returns an error that no call of func can return; it has a return
\* to take (it does not panic) and that return is not a success.
C4_EmptyList ==
    /\ (pc = "loop" /\ candidates = <<>>) => ENABLED ForEachEnd
    /\ (pc = "done" /\ candidates = <<>>)
        => /\ ~ret.ok
           /\ ret.val = <<>>
           /\ attempts = <<>>
           /\ ret.err # NoError
           /\ ret.err \notin AttemptErrors

\* for_each_addr has returned from a call with no candidate.
C4_Witness == pc = "done" /\ candidates = <<>> /\ ~ret.ok

\* C5: a handle a Link value was constructed on has had no WSClose while
\* that value is in scope and exactly one WSClose once the value was
\* closed or dropped, and no native call was made on it after its WSClose.
C5_ReleaseOnce ==
    \A h \in made :
        /\ closes[h] = IF h = link THEN 0 ELSE 1
        /\ ~late[h]

\* A link on which an operation has failed, and which was never activated
\* successfully, was closed; a second link is in scope.
C5_Witness ==
    /\ link = 2
    /\ made = {1, 2}
    /\ closes[1] = 1
    /\ closes[2] = 0
    /\ last.op = "get_expr"
    /\ ~last.res.ok

\* C6: when the tag read returns a tag that is none of Integer, Real,
\* String, Symbol, Function, get_expr fails with the "unknown type" error
\* that carries the tag, and reads no payload: every token stays pending.
C6_UnknownTag ==
    (last.op = "get_expr" /\ last.before # <<>> /\ last.before[1].tag \notin KnownTags)
        => /\ ~last.res.ok
           /\ last.res.expr = <<>>
           /\ last.res.err =
                Error_custom("unknown WSLINK type: ", <<last.before[1].tag>>)
           /\ queue = last.before

\* NaN occurs in a Real node of the expression.
RECURSIVE HasNaN(_)
HasNaN(e) ==
    \/ e.kind = "Real" /\ e.val[2] = F64ExpAllOnes /\ e.val[3] # 0
    \/ e.kind = "Normal"
        /\ (HasNaN(e.head[1]) \/ \E i \in 1..Len(e.contents) : HasNaN(e.contents[i]))

\* C7: when the next token is a Real whose value is NaN, get_expr fails
\* with the error for NaN (no error code, no native failure) and returns no
\* expression; no expression get_expr returns holds a NaN.
C7_NaN ==
    /\ (last.op = "get_expr" /\ last.before # <<>>
            /\ last.before[1].tag = WSTKREAL
            /\ Len(last.before[1].val) = 3
            /\ last.before[1].val[2] = F64ExpAllOnes
            /\ last.before[1].val[3] # 0)
        => /\ ~last.res.ok
           /\ last.res.expr = <<>>
           /\ ~last.res.native
           /\ last.res.err.code = <<>>
           /\ last.res.err.message
                = "NaN value passed on WSLINK cannot be used to construct an Expr"
    /\ (last.op = "get_expr" /\ last.res.ok) => ~HasNaN(last.res.expr[1])

\* get_expr has read a NaN that had tokens behind it.
C7_Witness ==
    /\ last.op = "get_expr"
    /\ Len(last.before) > 1
    /\ last.before[1] = Token(WSTKREAL, F64NaN)
    /\ ~last.res.ok

NoSeparator(name) == \A i \in 1..Len(name) : name[i] # Backtick

\* C8: when the next token is a Symbol whose name has no context
\* separator, get_expr fails with the "no context" error carrying the name
\* as it was read and returns no expression; put_symbol, which is all that
\* put_expr does for a Symbol, writes the name it is given whether or not
\* it has a context.
C8_BareSymbol ==
    /\ (last.op = "get_expr" /\ last.before # <<>>
            /\ last.before[1].tag = WSTKSYM
            /\ NoSeparator(last.before[1].val))
        => /\ ~last.res.ok
           /\ last.res.expr = <<>>
           /\ ~last.res.native
           /\ last.res.err
                = Error_custom("Symbol name has no context", last.before[1].val)
    /\ last.op = "put_symbol"
        => /\ last.res.ok
           /\ Appended = <<Token(WSTKSYM, last.arg[1].val)>>
           /\ Appended = put_expr(<<>>, last.arg[1])

\* A name without a context was written with put_symbol and get_expr has
\* then read it.
C8_Witness ==
    /\ last.op = "get_expr"
    /\ last.before # <<>>
    /\ last.before[1] = Token(WSTKSYM, BareName)
    /\ ~last.res.ok

\* A token get_expr can turn into a node, or a Function token with its
\* argument count.
GoodToken(t) ==
    CASE t.tag = WSTKINT -> Len(t.val) = 1
      [] t.tag = WSTKREAL -> Len(t.val) = 3 /\ ~(t.val[2] = F64ExpAllOnes /\ t.val[3] # 0)
      [] t.tag = WSTKSTR -> TRUE
      [] t.tag = WSTKSYM -> ~NoSeparator(t.val)
      [] t.tag = WSTKFUNC -> Len(t.val) = 1
      [] OTHER -> FALSE

\* p starts with the complete tokens of one Function expression.
WholeFunction(p) ==
    /\ p # <<>>
    /\ p[1].tag = WSTKFUNC
    /\ Len(p[1].val) = 1
    /\ SubtreeLen(p, 1) <= Len(p)
    /\ \A i \in 1..SubtreeLen(p, 1) : GoodToken(p[i])

\* Where the j-th subtree behind a Function token at p[1] starts: the head
\* is subtree 0, the arguments are subtrees 1..N.
RECURSIVE PartStart(_, _)
PartStart(p, j) ==
    IF j = 0 THEN 2 ELSE PartStart(p, j - 1) + SubtreeLen(p, PartStart(p, j - 1))

Part(p, j) == SubSeq(p, PartStart(p, j), PartStart(p, j + 1) - 1)

\* C9: when the next tag is Function and the tokens of that expression are
\* there, get_expr returns a Normal node whose head is the expression of
\* the first subtree behind the argument count N and whose contents are
\* the expressions of the next N subtrees in stream order; it consumes the
\* tokens of that expression and leaves every later token pending.
C9_FunctionDecode ==
    (last.op = "get_expr" /\ WholeFunction(last.before))
        => LET p == last.before
               n == p[1].val[1]
               e == last.res.expr[1]
           IN  /\ last.res.ok
               /\ e.kind = "Normal"
               /\ Len(e.contents) = n
               /\ e.head[1] = get_expr(Part(p, 0), MLEOK).expr[1]
               /\ \A j \in 1..n : e.contents[j] = get_expr(Part(p, j), MLEOK).expr[1]
               /\ queue = SubSeq(p, SubtreeLen(p, 1) + 1, Len(p))

\* A Function with arguments was decoded and a token is left behind it.
C9_Witness ==
    /\ last.op = "get_expr"
    /\ WholeFunction(last.before)
    /\ last.res.ok
    /\ Len(last.res.expr[1].contents) >= 1
    /\ last.res.expr[1].head[1] # last.res.expr[1].contents[1]
    /\ queue # <<>>


\* The seven arguments that open a link of the given mode, protocol and name.
BaseArguments(mode, call) ==
    <<Str("-wstp"), Str("-linkmode"), Str(mode), Str("-linkprotocol"),
      Str(CASE call.protocol = "Protocol::IntraProcess" -> "IntraProcess"
            [] call.protocol = "Protocol::SharedMemory" -> "SharedMemory"
            [] call.protocol = "Protocol::TCPIP" -> "TCPIP"
            [] OTHER -> ""),
      Str("-linkname"), call.name>>

ModeOf(call) == IF call.fn = "listen" THEN "listen" ELSE "connect"

OpenedByArguments ==
    native_opens = 1 /\ opencall.fn \in {"listen", "connect", "connect_with_options"}

\* C11 as stated: the argument list handed to the native open by listen,
\* connect and connect_with_options is exactly "-wstp", "-linkmode", mode,
\* "-linkprotocol", protocol, "-linkname", name, followed by the option
\* strings in order, and no other element.
C11_OpenArguments ==
    OpenedByArguments =>
        argv = BaseArguments(ModeOf(opencall), opencall) \o opencall.options

\* C11 amended: the seven arguments are followed, for listen, by
\* "-linkoptions" and "MLDontInteract"; for connect_with_options with a
\* non-empty option list, by "-linkoptions" and the option strings in
\* order; for connect and for an empty option list, by nothing.
C11_OpenArgumentsFlag ==
    OpenedByArguments =>
        argv = BaseArguments(ModeOf(opencall), opencall)
                 \o (IF opencall.fn = "listen"
                     THEN <<Str("-linkoptions"), Str("MLDontInteract")>>
                     ELSE IF opencall.options = <<>>
                          THEN <<>>
                          ELSE <<Str("-linkoptions")>> \o opencall.options)

C11_Witness ==
    /\ OpenedByArguments
    /\ opencall.fn = "connect_with_options"
    /\ Len(opencall.options) = MaxOpts
    /\ Len(argv) = 8 + MaxOpts

\* C12 as stated: for every input and every native result, each operation
\* returns a value or an error value to its caller; no operation panics.
C12_NoAbort == ~panicked /\ (last.op # "none" => last.res # Unwound(last.before))

\* The tokens the last transfer appended to b (last.arg is b's content
\* before the transfer).
Moved == SubSeq(dest_queue, Len(last.arg) + 1, Len(dest_queue))

\* p is the tokens of exactly one expression.
OneExpression(p) == p # <<>> /\ SubtreeLen(p, 1) = Len(p)

\* C13: when a.transfer_expr_to(b) succeeds, b's pending content is its
\* previous content followed by exactly one expression, the one that was
\* first pending on a (which a no longer holds); a read on a b that was
\* empty returns that expression.
C13_Transfer ==
    (last.op = "transfer_expr_to" /\ last.res.ok) =>
        /\ IsPrefix(last.arg, dest_queue)
        /\ OneExpression(Moved)
        /\ last.before = Moved \o queue
        /\ last.arg = <<>> =>
             \A c \in ErrCodes :
                get_expr(dest_queue, c) = [get_expr(last.before, c) EXCEPT !.rest = <<>>]

\* put_i64(5) on a, transfer to the empty b: b.get_expr() is 5; and a
\* transfer of a function (two tokens) to a b that holds a token.
C13_Witness ==
    \/ /\ last.op = "transfer_expr_to" /\ last.res.ok
       /\ last.arg = <<>>
       /\ last.before = <<Token(WSTKINT, <<5>>)>>
       /\ get_expr(dest_queue, 1) = Ok(IntegerE(5), <<>>)
    \/ /\ last.op = "transfer_expr_to" /\ last.res.ok
       /\ last.arg # <<>>
       /\ Len(Moved) = 2

\* A token that get_expr takes without an error when it is read: a leaf
\* that decodes, or a Function token with its argument count.
TokenOk(t) ==
    \/ (t.tag % U8) = WSTKFUNC /\ Len(t.val) = 1
    \/ get_expr(<<t>>, MLEOK).ok

\* The position of the first token of p that get_expr does not take, past
\* the end of p if there is none.
FirstFailing(p) ==
    IF \E i \in 1..Len(p) : ~TokenOk(p[i])
    THEN CHOOSE i \in 1..Len(p) : ~TokenOk(p[i]) /\ \A j \in 1..(i - 1) : TokenOk(p[j])
    ELSE Len(p) + 1

\* C14: when get_expr fails, at any depth, it returns the error of the
\* first token that fails (or of the end of the stream), it has read every
\* token before that one and none after it, and it returns no expression,
\* whatever head and arguments it had decoded.
C14_AbortOnFirstError ==
    (last.op = "get_expr" /\ ~last.res.ok) =>
        LET p == last.before
            f == FirstFailing(p)
            n == Len(p) - Len(queue)
        IN  /\ last.res.expr = <<>>
            /\ queue = SubSeq(p, n + 1, Len(p))
            /\ n \in {f - 1, f}
            /\ n <= Len(p)
            /\ \E c \in ErrCodes :
                  last.res.err
                    = get_expr(IF f > Len(p) THEN <<>> ELSE <<p[f]>>, c).err

\* An argument of a Function failed to decode after the head and an
\* argument had been decoded, and a token is pending behind it.
C14_Witness ==
    /\ last.op = "get_expr"
    /\ ~last.res.ok
    /\ Len(last.before) = 4
    /\ last.before[1] = Token(WSTKFUNC, <<2>>)
    /\ FirstFailing(last.before) = 3
    /\ queue # <<>>

\* The Real nodes of an expression.
RECURSIVE Reals(_)
RECURSIVE RealsOfAll(_)
RealsOfAll(es) == IF es = <<>> THEN {} ELSE Reals(Head(es)) \cup RealsOfAll(Tail(es))

Reals(e) ==
    IF e.kind = "Real" THEN {e.val}
    ELSE IF e.kind = "Normal" THEN Reals(e.head[1]) \cup RealsOfAll(e.contents)
    ELSE {}

\* An IEEE 754 double <<sign, exponent, mantissa>> is finite, is an infinity.
IsFinite(r) == r[2] # F64ExpAllOnes

IsInfinite(r) == r[2] = F64ExpAllOnes /\ r[3] = 0

NextIsInfinity ==
    /\ last.op = "get_expr"
    /\ last.before # <<>>
    /\ last.before[1].tag = WSTKREAL
    /\ Len(last.before[1].val) = 3
    /\ IsInfinite(last.before[1].val)

\* C15 as stated: every Real node of an expression get_expr returns holds
\* a finite value, and a Real token that carries positive or negative
\* infinity is rejected.
C15_FiniteReal ==
    /\ (last.op = "get_expr" /\ last.res.ok)
        => \A r \in Reals(last.res.expr[1]) : IsFinite(r)
    /\ NextIsInfinity => ~last.res.ok

\* C15 amended: every Real node of an expression get_expr returns holds a
\* value that is not NaN; a Real token that carries positive or negative
\* infinity is accepted and decodes to a Real node holding that infinity.
C15_RealNotNaN ==
    /\ (last.op = "get_expr" /\ last.res.ok)
        => \A r \in Reals(last.res.expr[1]) : IsFinite(r) \/ IsInfinite(r)
    /\ NextIsInfinity
        => /\ last.res.ok
           /\ last.res.expr[1] = RealE(last.before[1].val)
           /\ queue = Tail(last.before)

\* Both infinities came back inside one decoded Function.
C15_Witness ==
    /\ last.op = "get_expr"
    /\ last.res.ok
    /\ {F64Inf, F64NegInf} \subseteq Reals(last.res.expr[1])

\* The operations that report the failure of one native call.
FailOps == {"activate", "flush", "raw_get_next", "raw_next_packet", "new_packet"}

\* C16 as stated: whenever the native call of activate, flush,
\* raw_get_next, raw_next_packet or new_packet reports failure, the
\* operation returns an error whose code and message are the link's current
\* error code and message, and it has made the native call once.
C16_ErrorState ==
    (last.op \in FailOps /\ (panicked \/ ~last.res.ok)) =>
        /\ ~panicked
        /\ last.res.err.code = <<werr>>
        /\ last.res.err.message = "WSErrorMessage"
        /\ calls = 1

\* C17 as stated: while an error is recorded on the link, every call of
\* error() returns that error's code; error() and error_message() never
\* change the link's error code; the first error() after clear_error()
\* returns none.
C17_ErrorPersistence ==
    /\ [](last.op = "error" /\ werr # MLEOK
            => ~panicked /\ ~last.res.ok /\ last.res.err.code = <<werr>>)
    /\ [][last'.op \in {"error", "error_message"} => werr' = werr]_vars
    /\ [][last.op = "clear_error" /\ last'.op = "error"
            => last'.res = Ok(Unit, queue)]_vars

\* C18 as stated: every message buffer an operation obtained from the
\* native layer through error() has been released when it returns, also
\* when the error code is OK and error() returns none.
C18_BufferRelease == buf.obtained = buf.released

\* C19 as stated: when the native call of a.transfer_expr_to(b) reports
\* failure, the error returned is the error recorded on a, and never an
\* error recorded only on b.
C19_SourceError ==
    (last.op = "transfer_expr_to" /\ (panicked \/ ~last.res.ok)) =>
        /\ ~panicked
        /\ werr # MLEOK => last.res.err.code = <<werr>>
        /\ (werr = MLEOK /\ dest_werr # MLEOK) => last.res.err.code # <<dest_werr>>

\* C20 as stated: when the environment handle cannot be initialized, every
\* call of a link constructor returns the initialization error and makes no
\* call of the native open.
C20_EnvFailure ==
    (~env_ok /\ last.op \in {"new_loopback", "open_with_args"}) =>
        /\ ~panicked
        /\ last.res = Err(stdenv_error, <<>>)
        /\ native_opens = 0

\* C21: during connect_to_link_server no link is open between two
\* candidates (a link whose activate() failed has had exactly one WSClose
\* before the next candidate is attempted), and when the call has returned
\* the only handle opened by it that can still be open is the one of the
\* link it returned.
C21_NoStrayLink ==
    /\ pc = "loop" => /\ StillOpen = {}
                      /\ \A h \in made : closes[h] = 1
    /\ pc = "done" => /\ StillOpen \subseteq ({link} \ {NoLink})
                      /\ \A h \in made : closes[h] = IF h = link THEN 0 ELSE 1
                      /\ link # NoLink => ret.ok /\ ret.val = <<link>>

\* C22: when new_loopback or open_with_args has returned an error, no
\* native link handle is open: no Link value is in scope while a
\* constructor runs, so a handle that is open after a failed constructor
\* was created by a failed call and never closed.
C22_FailedConstructor ==
    (last.op \in {"new_loopback", "open_with_args"} /\ ~panicked /\ ~last.res.ok)
        => StillOpen = {}

\* C24: when open_with_args has returned, by any of its return paths, it
\* has freed every C string it allocated for its arguments.
C24_ArgumentRelease ==
    (last.op = "open_with_args" /\ ~panicked)
        => /\ c_strings.allocated = Len(BaseArguments(ModeOf(opencall), opencall))
                                        + (IF opencall.fn = "listen" THEN 2
                                           ELSE IF opencall.options # <<>>
                                           THEN 1 + Len(opencall.options) ELSE 0)
           /\ c_strings.freed = c_strings.allocated

\* get_expr read the payload of t and then rejected it: a Real that is a
\* NaN, a Symbol name without a context.
PayloadRejected(t) ==
    \/ (t.tag % U8) = WSTKREAL /\ Len(t.val) = 3 /\ is_nan(t.val)
    \/ (t.tag % U8) = WSTKSYM /\ NoSeparator(t.val)

\* get_expr has failed after it had read at least the Function token of a
\* nested expression.
FailedPartWay ==
    /\ last.op = "get_expr"
    /\ ~last.res.ok
    /\ FirstFailing(last.before) > 1

\* C23 as stated: when get_expr fails part-way through a nested expression
\* at a token, the tokens left on the link are exactly those behind the
\* failing token.
C23_CursorPastFailing ==
    (FailedPartWay /\ FirstFailing(last.before) <= Len(last.before))
        => queue = SubSeq(last.before, FirstFailing(last.before) + 1, Len(last.before))

\* The tokens behind the read cursor a failed get_expr leaves: those behind
\* the failing token when its payload was read and rejected (NaN, symbol
\* without context), the failing token and those behind it otherwise
\* (unknown tag, failed native read, end of the stream).
Pending ==
    LET p == last.before
        f == FirstFailing(p)
        n == IF f <= Len(p) /\ PayloadRejected(p[f]) THEN f ELSE f - 1
    IN  SubSeq(p, n + 1, Len(p))

\* C23: when get_expr fails part-way through a nested expression it skips
\* nothing: it has consumed the tokens before the failing token, and the
\* failing token too exactly when it had read its payload and rejected it;
\* the next get_expr on the link starts at the first token not consumed.
C23_ReadCursor ==
    /\ [](FailedPartWay => queue = Pending)
    /\ [][(FailedPartWay /\ last'.op = "get_expr") => last'.before = Pending]_vars

\* A NaN argument of a Function failed to decode after the head had been
\* decoded; the last argument of the same Function is what stays pending.
C23_Witness ==
    /\ FailedPartWay
    /\ Len(last.before) = 4
    /\ last.before[1] = Token(WSTKFUNC, <<2>>)
    /\ FirstFailing(last.before) = 3
    /\ PayloadRejected(last.before[3])
    /\ SubtreeLen(last.before, 1) = 4
    /\ queue = <<last.before[4]>>

====
